---- MODULE Spec2Model ----
(***************************************************************************)
(* The like relation of posts: likePost, isPostLikedByUser and the /like   *)
(* route of src/src/api/post/post.routes.js, over the shared posts_rels    *)
(* table.  Every await of likePost is one step of a request, so that the   *)
(* storage steps of concurrently served requests interleave.               *)
(***************************************************************************)
EXTENDS Integers, Sequences, FiniteSets, TLC

\* Slots for the requests the server is handling at one time.
Clients == {1, 2}

\* Rows of the posts table at start, and an id no post has.
PostIds == {7, 8}
MissingPostIds == {999999}
UserIds == {1, 2}

\* The bodies of the /like requests that arrive: both users on post 7, a
\* like of another post, and a like of a post that does not exist.
Bodies ==
    {[postId |-> 7, userId |-> 1], [postId |-> 7, userId |-> 2],
     [postId |-> 8, userId |-> 1], [postId |-> 999999, userId |-> 1]}

\* Number of /like requests a behaviour issues.
MaxCalls == 4

\* Number of those that arrive while another request is being served.
MaxRaces == 1

\* A column left out of a create's data is stored as SQL NULL.
Null == 0

\* no request is being served
NoRequest == [postId |-> Null, userId |-> Null]

NotBegun == [at |-> Null, rels |-> {}]

\* The /:postId/is-liked and /:postId/likes requests that arrive; the last
\* lacks the query parameter userId.
QueryBodies ==
    {[postId |-> 7, userId |-> 1], [postId |-> 7, userId |-> 2],
     [postId |-> 7, userId |-> Null]}

\* no query has been answered
NoAnswer ==
    [route |-> "none", postId |-> Null, userId |-> Null, status |-> Null,
     liked |-> FALSE, likes |-> {}, error |-> ""]

\* Rows of the comments table, and an id no comment has.
CommentIds == {3}
MissingCommentIds == {4}

\* The updateData of the requests to PUT /post/edit-post: without a tags
\* array, and with the arrays [], [2] and [1, 2].
UpdateDatas ==
    {[hasTags |-> FALSE, tags |-> <<>>], [hasTags |-> TRUE, tags |-> <<>>],
     [hasTags |-> TRUE, tags |-> <<2>>], [hasTags |-> TRUE, tags |-> <<1, 2>>]}

\* Highest id the relation table assigns while posts are edited.
MaxRowId == 4

\* The (comment, user) of the requests to the reaction routes of the comments:
\* two users on comment 3, one on a comment that does not exist, and a
\* request without userId.
CommentBodies ==
    {[commentId |-> 3, userId |-> 1], [commentId |-> 3, userId |-> 2],
     [commentId |-> 4, userId |-> 1], [commentId |-> 3, userId |-> Null]}

\* Number of reaction edges the comment routes create.
MaxReactions == 3

\* no reaction route of the comments has answered
NoReply ==
    [route |-> "none", commentId |-> Null, userId |-> Null, status |-> Null,
     invoked |-> FALSE, before |-> {}, liked |-> FALSE, count |-> Null,
     error |-> ""]

VARIABLES
    posts,        \* ids of the rows of table posts
    posts_rels,   \* rows of table posts_rels
    nextId,       \* autoincrement id of posts_rels
    pc,           \* per request: the await it is suspended at
    req,          \* per request: the body {postId, userId}
    existingLike, \* per request: likePost's local existingLike ({} is null)
    began,        \* per request: what the log and the table held on arrival
    history,      \* responses of the /like route, in the order they were sent
    raced,        \* number of requests that arrived during another request
    answer,       \* the last response of a query route of the posts
    comments,     \* ids of the rows of table comments
    comments_rels,\* rows of table comments_rels
    nextRelId,    \* autoincrement id of comments_rels
    reply         \* the last response of a reaction route of the comments

\* what the /like route and likePost read and write
likeVars ==
    <<posts, posts_rels, nextId, pc, req, existingLike, began, history, raced>>

\* what the reaction routes of the comments read and write
commentVars == <<comments, comments_rels, nextRelId, reply>>

vars == <<likeVars, answer, commentVars>>

----------------------------------------------------------------------------
\* Prisma queries over a table (a set of rows)

\* where: { k: v, ... } matches the rows that agree on every key given
Matches(row, where) == \A k \in DOMAIN where : row[k] = where[k]

findMany(table, where) == {r \in table : Matches(r, where)}

count(table, where) == Cardinality(findMany(table, where))

\* create on posts_rels: the table declares no unique key over
\* (parent_id, user_id, path), so the row is added whatever rows there are
create(table, row) == table \cup {row}

\* a lookup that takes every id for the id of a row
findUniqueAny(table, id) == TRUE

\* findUnique on posts: where: { id }
findUnique(table, id) == id \in table

\* a lookup under the path of the tag relations
LikeWhereTags(postId, userId) ==
    [parent_id |-> postId, user_id |-> userId, path |-> "tags"]

\* a lookup of the Like edge of any user on the post
LikeWhereAnyUser(postId, userId) ==
    [parent_id |-> postId, path |-> "likedBy"]

\* the where of likePost's findFirst and of isPostLikedByUser
LikeWhere(postId, userId) ==
    [parent_id |-> postId, user_id |-> userId, path |-> "likedBy"]

\* a count over every relation of the post
CountWhereAnyPath(postId) == [parent_id |-> postId]

\* the where of likePost's count
CountWhere(postId) == [parent_id |-> postId, path |-> "likedBy"]

\* a create under the path of the tag relations
LikeDataAsTag(id, postId, userId) ==
    [id |-> id, parent_id |-> postId, user_id |-> userId,
     path |-> "tags", tags_id |-> Null]

\* a create that leaves out the user
LikeDataNoUser(id, postId, userId) ==
    [id |-> id, parent_id |-> postId, user_id |-> Null,
     path |-> "likedBy", tags_id |-> Null]

\* a Like row written for user 1 whoever the caller is
LikeDataFirstUser(id, postId, userId) ==
    [id |-> id, parent_id |-> postId, user_id |-> 1,
     path |-> "likedBy", tags_id |-> Null]

\* the data of likePost's create, with the id the table assigns
LikeData(id, postId, userId) ==
    [id |-> id, parent_id |-> postId, user_id |-> userId,
     path |-> "likedBy", tags_id |-> Null]

\* the data of createPost's create of a tag relation
TagData(id, postId, tagId) ==
    [id |-> id, parent_id |-> postId, user_id |-> Null,
     path |-> "tags", tags_id |-> tagId]

\* a check that leaves the user out of the where
isPostLikedByAnyone(postId, userId) ==
    findMany(posts_rels, [parent_id |-> postId, path |-> "likedBy"]) # {}

\* isPostLikedByUser: findFirst, then !!like
isPostLikedByUser(postId, userId) ==
    findMany(posts_rels, LikeWhere(postId, userId)) # {}

\* include: { posts_rels: true }: the relation rows of a post
IncludeRels(id) == {r \in posts_rels : r.parent_id = id}

\* a count of every relation row of the post
RelsLength(rels) == Cardinality(rels)

\* post.posts_rels.filter(rel => rel.path === 'likedBy').length
LikedByLength(rels) == Cardinality({rel \in rels : rel.path = "likedBy"})

\* getPostById: null ({}) without the post, else the post with its likeCount
getPostById(id) ==
    IF findUnique(posts, id)
      THEN {[id |-> id, likeCount |-> LikedByLength(IncludeRels(id))]}
      ELSE {}

\* getAllPosts: every post (of the page) with its likeCount
getAllPosts ==
    {[id |-> p, likeCount |-> LikedByLength(IncludeRels(p))] : p \in posts}

----------------------------------------------------------------------------
\* Post 7 was created with one tag, post 8 with none; nobody has liked yet.
Init ==
    /\ posts = PostIds
    /\ posts_rels = {TagData(1, 7, 1)}
    /\ nextId = 2
    /\ pc = [c \in Clients |-> "idle"]
    /\ req = [c \in Clients |-> NoRequest]
    /\ existingLike = [c \in Clients |-> {}]
    /\ began = [c \in Clients |-> NotBegun]
    /\ history = <<>>
    /\ raced = 0
    /\ answer = NoAnswer
    /\ comments = CommentIds
    /\ comments_rels = {}
    /\ nextRelId = 1
    /\ reply = NoReply

InFlight == {c \in Clients : pc[c] # "idle"}

\* the response of the route, appended to the log; the request's locals die
Respond(c, status, body) ==
    /\ history' = Append(history,
            [postId |-> req[c].postId, userId |-> req[c].userId,
             began |-> began[c].at, before |-> began[c].rels,
             status |-> status, body |-> body])
    /\ pc' = [pc EXCEPT ![c] = "idle"]
    /\ req' = [req EXCEPT ![c] = NoRequest]
    /\ existingLike' = [existingLike EXCEPT ![c] = {}]
    /\ began' = [began EXCEPT ![c] = NotBegun]

\* a catch block without the 'Post not found' branch
LikeCatchAlways500(message) == 500

\* router.post('/like'), catch: 404 for 'Post not found', else 500
LikeCatchStatus(message) == IF message = "Post not found" THEN 404 ELSE 500

\* likePost rejected with an Error of this message; the route's catch answers
LikeCatch(c, message) ==
    Respond(c, LikeCatchStatus(message),
        [error |-> IF LikeCatchStatus(message) = 404
                     THEN "Post not found" ELSE "Internal server error"])

\* router.post('/like'): 400 when postId or userId is missing, else likePost
\* is called.  An arriving request takes the first free slot.
LikeRoute(c, postId, userId) ==
    /\ pc[c] = "idle"
    /\ \A d \in Clients : d < c => pc[d] # "idle"
    /\ Len(history) + Cardinality(InFlight) < MaxCalls
    /\ IF InFlight = {}
         THEN UNCHANGED raced
         ELSE raced < MaxRaces /\ raced' = raced + 1
    /\ IF postId = Null \/ userId = Null
         THEN /\ history' = Append(history,
                    [postId |-> postId, userId |-> userId,
                     began |-> Len(history), before |-> posts_rels,
                     status |-> 400,
                     body |-> [error |->
                        "Missing required fields: postId or userId"]])
              /\ UNCHANGED <<req, began, existingLike, pc>>
         ELSE /\ req' = [req EXCEPT
                            ![c] = [postId |-> postId, userId |-> userId]]
              /\ began' = [began EXCEPT
                            ![c] = [at |-> Len(history), rels |-> posts_rels]]
              /\ existingLike' = [existingLike EXCEPT ![c] = {}]
              /\ pc' = [pc EXCEPT ![c] = "findUnique"]
              /\ UNCHANGED history
    /\ UNCHANGED <<posts, posts_rels, nextId>>
    /\ UNCHANGED <<answer, commentVars>>

\* likePost: await db.posts.findUnique; throws 'Post not found' -> 404
FindUniquePost(c) ==
    /\ pc[c] = "findUnique"
    /\ IF findUnique(posts, req[c].postId)
         THEN /\ pc' = [pc EXCEPT ![c] = "findFirst"]
              /\ UNCHANGED <<req, existingLike, began, history>>
         ELSE LikeCatch(c, "Post not found")
    /\ UNCHANGED <<posts, posts_rels, nextId, raced>>
    /\ UNCHANGED <<answer, commentVars>>

\* likePost: await db.posts_rels.findFirst; no orderBy, so any matching row
FindFirstLike(c) ==
    /\ pc[c] = "findFirst"
    /\ LET found == findMany(posts_rels, LikeWhere(req[c].postId, req[c].userId))
       IN  IF found = {}
             THEN /\ existingLike' = [existingLike EXCEPT ![c] = {}]
                  /\ pc' = [pc EXCEPT ![c] = "create"]
             ELSE \E r \in found :
                  /\ existingLike' = [existingLike EXCEPT ![c] = {r}]
                  /\ pc' = [pc EXCEPT ![c] = "delete"]
    /\ UNCHANGED <<posts, posts_rels, nextId, req, began, history, raced>>
    /\ UNCHANGED <<answer, commentVars>>

\* likePost: await db.posts_rels.delete({ where: { id: existingLike.id } });
\* delete rejects (P2025) when no row has the id, which the route answers 500
DeleteLike(c) ==
    /\ pc[c] = "delete"
    /\ LET gone == {r \in posts_rels : \E e \in existingLike[c] : r.id = e.id}
       IN  IF gone # {}
             THEN /\ posts_rels' = posts_rels \ gone
                  /\ pc' = [pc EXCEPT ![c] = "count"]
                  /\ UNCHANGED <<req, existingLike, began, history>>
             ELSE /\ LikeCatch(c, "Record to delete does not exist.")
                  /\ UNCHANGED posts_rels
    /\ UNCHANGED <<posts, nextId, raced>>
    /\ UNCHANGED <<answer, commentVars>>

\* likePost: await db.posts_rels.create.  When the post was deleted since
\* the findUnique, the create inserts the row, or rejects if the table has a
\* foreign key on parent_id (the schema decides), which the route answers 500.
CreateLike(c) ==
    /\ pc[c] = "create"
    /\ \/ /\ posts_rels' = create(posts_rels,
                    LikeData(nextId, req[c].postId, req[c].userId))
          /\ nextId' = nextId + 1
          /\ pc' = [pc EXCEPT ![c] = "count"]
          /\ UNCHANGED <<req, existingLike, began, history>>
       \/ /\ ~findUnique(posts, req[c].postId)
          /\ LikeCatch(c, "Foreign key constraint failed")
          /\ UNCHANGED <<posts_rels, nextId>>
    /\ UNCHANGED <<posts, raced>>
    /\ UNCHANGED <<answer, commentVars>>

\* both branches returning what the create branch returns
LikeResultAlwaysLiked(existing, likeCount) ==
    [liked |-> TRUE, likeCount |-> likeCount,
     message |-> "Post liked successfully"]

\* likePost's two return statements: liked is false in the branch that
\* found existingLike and true in the other
LikeResult(existing, likeCount) ==
    [liked |-> existing = {}, likeCount |-> likeCount,
     message |-> IF existing = {} THEN "Post liked successfully"
                                  ELSE "Post unliked successfully"]

\* likePost: await db.posts_rels.count, return; the route answers 200
CountLikes(c) ==
    /\ pc[c] = "count"
    /\ LET likeCount == count(posts_rels, CountWhere(req[c].postId))
       IN  Respond(c, 200, LikeResult(existingLike[c], likeCount))
    /\ UNCHANGED <<posts, posts_rels, nextId, raced>>
    /\ UNCHANGED <<answer, commentVars>>

Step(c) ==
    \/ FindUniquePost(c)
    \/ FindFirstLike(c)
    \/ DeleteLike(c)
    \/ CreateLike(c)
    \/ CountLikes(c)

Arrive ==
    \E c \in Clients, b \in Bodies : LikeRoute(c, b.postId, b.userId)

\* a request arrives while no other is being served
ArriveAlone ==
    /\ InFlight = {}
    /\ Arrive

Run == \E c \in Clients : Step(c)

Next == Arrive \/ Run

\* requests served concurrently
Spec == Init /\ [][Next]_vars

----------------------------------------------------------------------------
\* The query routes of the posts

\* a where that leaves the path out
LikesWhereAnyPath(postId) == [parent_id |-> postId]

\* the where of getLikesByPostId's findMany
LikesWhere(postId) == [parent_id |-> postId, path |-> "likedBy"]

\* getLikesByPostId: one {id, userId} per row found (the user summary, read
\* from the users table, is left out)
getLikesByPostId(postId) ==
    {[id |-> like.id, userId |-> like.user_id] :
        like \in findMany(posts_rels, LikesWhere(postId))}

\* an is-liked check that removes the row it finds
IsLikedRouteRemoving(postId, userId) ==
    /\ answer' = [NoAnswer EXCEPT
            !.route = "is-liked", !.postId = postId, !.userId = userId,
            !.status = 200, !.liked = isPostLikedByUser(postId, userId)]
    /\ posts_rels' = posts_rels \ findMany(posts_rels, LikeWhere(postId, userId))
    /\ UNCHANGED <<posts, nextId, pc, req, existingLike, began, history, raced>>
    /\ UNCHANGED commentVars

\* router.get('/:postId/is-liked'): 400 without userId, else
\* isPostLikedByUser
IsLikedRoute(postId, userId) ==
    /\ answer' =
          IF userId = Null
            THEN [NoAnswer EXCEPT
                    !.route = "is-liked", !.postId = postId, !.status = 400,
                    !.error = "Missing required query parameter: userId"]
            ELSE [NoAnswer EXCEPT
                    !.route = "is-liked", !.postId = postId,
                    !.userId = userId, !.status = 200,
                    !.liked = isPostLikedByUser(postId, userId)]
    /\ UNCHANGED <<likeVars, commentVars>>

\* router.get('/:postId/likes'): getLikesByPostId
LikesRoute(postId) ==
    /\ answer' = [NoAnswer EXCEPT
            !.route = "likes", !.postId = postId, !.status = 200,
            !.likes = getLikesByPostId(postId)]
    /\ UNCHANGED <<likeVars, commentVars>>

Query ==
    \/ \E b \in QueryBodies : IsLikedRoute(b.postId, b.userId)
    \/ \E p \in PostIds \cup MissingPostIds : LikesRoute(p)

NextQuery == ArriveAlone \/ Run \/ Query

\* the query routes served at any await of the /like requests, which are
\* served one after the other
QuerySpec == Init /\ [][NextQuery]_vars

----------------------------------------------------------------------------
\* The reaction services of the comments (comment.services): a toggle per
\* kind over comments_rels, as the Reaction Ledger of the design describes

\* the where of a reaction edge
ReactionWhere(commentId, userId, path) ==
    [parent_id |-> commentId, user_id |-> userId, path |-> path]

\* the where of a reaction count
ReactionCountWhere(commentId, path) ==
    [parent_id |-> commentId, path |-> path]

\* the data of a reaction edge, with the id the table assigns
ReactionData(id, commentId, userId, path) ==
    [id |-> id, parent_id |-> commentId, user_id |-> userId, path |-> path]

\* a toggle that finds the edge of any kind
ToggledAnyKind(table, id, commentId, userId, path) ==
    LET found == findMany(table,
                    [parent_id |-> commentId, user_id |-> userId])
    IN  IF found # {}
          THEN table \ found
          ELSE create(table, ReactionData(id, commentId, userId, path))

\* like / dislike: the table after the toggle of (commentId, userId, path);
\* the existence of the comment is not checked
Toggled(table, id, commentId, userId, path) ==
    LET found == findMany(table, ReactionWhere(commentId, userId, path))
    IN  IF found # {}
          THEN table \ found
          ELSE create(table, ReactionData(id, commentId, userId, path))

\* an unlike that removes the reactions of every kind
UnlikedAnyKind(table, commentId, userId) ==
    table \ findMany(table, [parent_id |-> commentId, user_id |-> userId])

\* unlike: the table without the Like edge of (commentId, userId)
Unliked(table, commentId, userId) ==
    table \ findMany(table, ReactionWhere(commentId, userId, "likedBy"))

isCommentLikedByUser(commentId, userId) ==
    findMany(comments_rels, ReactionWhere(commentId, userId, "likedBy")) # {}

\* a reply of a reaction route
Reply(route, commentId, userId, status, invoked) ==
    [NoReply EXCEPT
        !.route = route, !.commentId = commentId, !.userId = userId,
        !.status = status, !.invoked = invoked, !.before = comments_rels]

----------------------------------------------------------------------------
\* The reaction routes of the comments

\* likeComment / dislikeComment called by its route, which checks nothing:
\* 200 with the result; a rejection goes to next(error), answered 500.
\* What the service does without a userId is not known: it rejects or
\* toggles the edge of no user.
ToggleRoute(route, path, commentId, userId) ==
    /\ nextRelId <= MaxReactions
    /\ \/ /\ comments_rels' =
                Toggled(comments_rels, nextRelId, commentId, userId, path)
          /\ nextRelId' = nextRelId + 1
          /\ reply' = [Reply(route, commentId, userId, 200, TRUE) EXCEPT
                !.liked = findMany(comments_rels,
                            ReactionWhere(commentId, userId, path)) = {},
                !.count = count(comments_rels',
                            ReactionCountWhere(commentId, path))]
       \/ /\ userId = Null
          /\ reply' = [Reply(route, commentId, userId, 500, TRUE) EXCEPT
                !.error = "Internal server error"]
          /\ UNCHANGED <<comments_rels, nextRelId>>
    /\ UNCHANGED <<likeVars, answer, comments>>

\* router.post('/like-comment/:id')
LikeCommentRoute(commentId, userId) ==
    ToggleRoute("like-comment", "likedBy", commentId, userId)

\* router.post('/dislike-comment/:id')
DislikeCommentRoute(commentId, userId) ==
    ToggleRoute("dislike-comment", "dislikedBy", commentId, userId)

\* a catch block without the 'comment does not exist' branch
UnlikeCatchAlways500(message) == 500

\* router.post('/unlike-comment/:id'), catch: 404 for the message of
\* unlikeComment's Error (written here without its diacritics), else
\* next(error), answered 500
UnlikeCatchStatus(message) ==
    IF message = "Binh luan khong ton tai" THEN 404 ELSE 500

\* router.post('/unlike-comment/:id'): 400 without userId; unlikeComment
\* throws when the comment does not exist, else removes the Like edge if
\* there is one and returns the like count
UnlikeCommentRoute(commentId, userId) ==
    /\ IF userId = Null
         THEN /\ reply' = [Reply("unlike-comment", commentId, userId, 400, FALSE)
                    EXCEPT !.error = "Missing required field: userId"]
              /\ UNCHANGED comments_rels
         ELSE IF ~findUnique(comments, commentId)
         THEN /\ reply' = [Reply("unlike-comment", commentId, userId,
                              UnlikeCatchStatus("Binh luan khong ton tai"), TRUE)
                    EXCEPT !.error =
                        IF UnlikeCatchStatus("Binh luan khong ton tai") = 404
                          THEN "Comment not found"
                          ELSE "Internal server error"]
              /\ UNCHANGED comments_rels
         ELSE /\ comments_rels' = Unliked(comments_rels, commentId, userId)
              /\ reply' = [Reply("unlike-comment", commentId, userId, 200, TRUE)
                    EXCEPT !.count = count(comments_rels',
                                ReactionCountWhere(commentId, "likedBy"))]
    /\ UNCHANGED <<likeVars, answer, comments, nextRelId>>

\* router.get('/:commentId/is-liked'): 400 without userId, else
\* isCommentLikedByUser
IsCommentLikedRoute(commentId, userId) ==
    /\ reply' =
          IF userId = Null
            THEN [Reply("is-liked", commentId, userId, 400, FALSE) EXCEPT
                    !.error = "Missing required query parameter: userId"]
            ELSE [Reply("is-liked", commentId, userId, 200, TRUE) EXCEPT
                    !.liked = isCommentLikedByUser(commentId, userId)]
    /\ UNCHANGED <<likeVars, answer, comments, comments_rels, nextRelId>>

NextComment ==
    \E b \in CommentBodies :
        \/ LikeCommentRoute(b.commentId, b.userId)
        \/ DislikeCommentRoute(b.commentId, b.userId)
        \/ UnlikeCommentRoute(b.commentId, b.userId)
        \/ IsCommentLikedRoute(b.commentId, b.userId)

\* the reaction routes of the comments, served one after the other
CommentSpec == Init /\ [][NextComment]_vars

----------------------------------------------------------------------------
\* The six reaction routes receiving requests that lack userId or the
\* target id

\* the bodies of POST /post/like that lack a field
LackingBodies ==
    {[postId |-> Null, userId |-> 1], [postId |-> 7, userId |-> Null],
     [postId |-> Null, userId |-> Null]}

ArriveLacking ==
    \E c \in Clients, b \in LackingBodies : LikeRoute(c, b.postId, b.userId)

QueryLacking == \E p \in PostIds : IsLikedRoute(p, Null)

CommentLacking ==
    \E c \in CommentIds :
        \/ LikeCommentRoute(c, Null)
        \/ DislikeCommentRoute(c, Null)
        \/ UnlikeCommentRoute(c, Null)
        \/ IsCommentLikedRoute(c, Null)

NextLacking == ArriveLacking \/ QueryLacking \/ CommentLacking

LackingSpec == Init /\ [][NextLacking]_vars

----------------------------------------------------------------------------
\* Editing a post

\* a deleteMany that leaves the path out
TagsWhereAnyPath(postId) == [parent_id |-> postId]

\* the where of updatePost's deleteMany
TagsWhere(postId) == [parent_id |-> postId, path |-> "tags"]

\* updatePost's rows after the transaction: when tags is an array, the tag
\* relations of the post are removed and one is created per tagId, with
\* the ids the table assigns from id on
UpdatedRels(table, id, postId, updateData) ==
    IF updateData.hasTags
      THEN (table \ findMany(table, TagsWhere(postId)))
             \cup {TagData(id + i - 1, postId, updateData.tags[i]) :
                      i \in 1..Len(updateData.tags)}
      ELSE table

\* router.put('/edit-post'): 400 without postId; updatePost runs in one
\* transaction, in which posts.update rejects with P2025 (answered 404) when
\* the post does not exist, before any relation is touched
EditPostRoute(postId, updateData) ==
    /\ IF postId = Null
         THEN /\ answer' = [NoAnswer EXCEPT
                    !.route = "edit-post", !.status = 400,
                    !.error = "Missing postId"]
              /\ UNCHANGED <<posts_rels, nextId>>
         ELSE IF ~findUnique(posts, postId)
         THEN /\ answer' = [NoAnswer EXCEPT
                    !.route = "edit-post", !.postId = postId,
                    !.status = 404, !.error = "Post not found"]
              /\ UNCHANGED <<posts_rels, nextId>>
         ELSE /\ updateData.hasTags =>
                    nextId + Len(updateData.tags) - 1 <= MaxRowId
              /\ posts_rels' =
                    UpdatedRels(posts_rels, nextId, postId, updateData)
              /\ nextId' = IF updateData.hasTags
                             THEN nextId + Len(updateData.tags)
                             ELSE nextId
              /\ answer' = [NoAnswer EXCEPT
                    !.route = "edit-post", !.postId = postId,
                    !.status = 200]
    /\ UNCHANGED <<posts, pc, req, existingLike, began, history, raced>>
    /\ UNCHANGED commentVars

\* post 7 edited with each updateData; an edit of a post that does not
\* exist and an edit without postId
Edit ==
    \/ \E d \in UpdateDatas : EditPostRoute(7, d)
    \/ \E p \in MissingPostIds \cup {Null} :
          EditPostRoute(p, [hasTags |-> TRUE, tags |-> <<1, 2>>])

\* a request of user 1 to like the post that is edited arrives while no
\* other is being served
ArriveAtEdited ==
    /\ InFlight = {}
    /\ \E c \in Clients : LikeRoute(c, 7, 1)

NextEdit == ArriveAtEdited \/ Run \/ Edit

\* post 7 edited at any await of the /like requests on it, which are served
\* one after the other
EditSpec == Init /\ [][NextEdit]_vars

----------------------------------------------------------------------------
\* Deleting a post

\* deletePost: db.posts.delete removes the post.  What becomes of the
\* post's relation rows is the schema's referential action on parent_id:
\* they are removed with the post, or they stay.
DeletedRels(table, postId) ==
    {{r \in table : r.parent_id # postId}, table}

\* router.delete('/delete-post'): 400 without postId; deletePost rejects with
\* P2025 (answered 404) when the post does not exist; a schema that
\* restricts the delete of a post with relation rows rejects it (answered
\* 500)
DeletePostRoute(postId) ==
    /\ IF postId = Null
         THEN /\ answer' = [NoAnswer EXCEPT
                    !.route = "delete-post", !.status = 400,
                    !.error = "Missing postId"]
              /\ UNCHANGED <<posts, posts_rels>>
         ELSE IF ~findUnique(posts, postId)
         THEN /\ answer' = [NoAnswer EXCEPT
                    !.route = "delete-post", !.postId = postId,
                    !.status = 404, !.error = "Post not found"]
              /\ UNCHANGED <<posts, posts_rels>>
         ELSE \/ /\ posts' = posts \ {postId}
                 /\ posts_rels' \in DeletedRels(posts_rels, postId)
                 /\ answer' = [NoAnswer EXCEPT
                       !.route = "delete-post", !.postId = postId,
                       !.status = 200]
              \/ /\ \E r \in posts_rels : r.parent_id = postId
                 /\ answer' = [NoAnswer EXCEPT
                       !.route = "delete-post", !.postId = postId,
                       !.status = 500, !.error = "Internal server error"]
                 /\ UNCHANGED <<posts, posts_rels>>
    /\ UNCHANGED <<nextId, pc, req, existingLike, began, history, raced>>
    /\ UNCHANGED commentVars

Delete == \E p \in {7, 999999, Null} : DeletePostRoute(p)

NextDelete == ArriveAlone \/ Run \/ Delete

\* posts deleted at any await of the /like requests, which are served one
\* after the other
DeleteSpec == Init /\ [][NextDelete]_vars

NextSeq == ArriveAlone \/ Run

\* requests served one after the other
SeqSpec == Init /\ [][NextSeq]_vars

----------------------------------------------------------------------------
\* Vocabulary of the properties

\* the Like edges of user u on post p among the rows of a table
LikeRows(table, p, u) ==
    {r \in table : r.path = "likedBy" /\ r.parent_id = p /\ r.user_id = u}

\* the Like edges on post p among the rows of a table
LikeRowsOf(table, p) ==
    {r \in table : r.path = "likedBy" /\ r.parent_id = p}

\* the Like edges of a table as (post, user) pairs
LikePairs(table) ==
    {<<r.parent_id, r.user_id>> : r \in {x \in table : x.path = "likedBy"}}

AnyPost == PostIds \cup MissingPostIds

SameCall(a, b) == a.postId = b.postId /\ a.userId = b.userId

IsCall(e, p, u) == e.postId = p /\ e.userId = u

\* the last response sent
Last == history[Len(history)]

\* the response before the last
Previous == history[Len(history) - 1]

\* The last two responses answer the same call on an existing post, and the
\* second request arrived after the first was answered, with no other
\* request being served meanwhile.
LastTwoInSequence ==
    /\ Len(history) >= 2
    /\ InFlight = {}
    /\ SameCall(Previous, Last)
    /\ Last.postId \in posts
    /\ Previous.began = Len(history) - 2
    /\ Last.began = Len(history) - 1

\* The last two responses answer the same call on an existing post, and the
\* request answered last arrived before the other was answered.
LastTwoOverlapped ==
    /\ Len(history) >= 2
    /\ InFlight = {}
    /\ SameCall(Previous, Last)
    /\ Last.postId \in posts
    /\ Last.began < Len(history) - 1

----------------------------------------------------------------------------
\* C1: when every likePost call runs to completion before the next starts,
\* the table holds at most one 'likedBy' row per (parent_id, user_id).
OneLikePerPairSequential ==
    \A p \in AnyPost, u \in UserIds :
        Cardinality(LikeRows(posts_rels, p, u)) <= 1

\* user 1 liked, unliked and liked post 7 again: one edge is there
RelikedAfterToggle ==
    /\ Len(history) = 3
    /\ InFlight = {}
    /\ \A i \in 1..3 : IsCall(history[i], 7, 1) /\ history[i].status = 200
    /\ Cardinality(LikeRows(posts_rels, 7, 1)) = 1

\* C2: in every interleaving of the storage steps of concurrent likePost
\* calls, two 'likedBy' rows of the same (parent_id, user_id) are one row.
OneLikePerPairConcurrent ==
    \A r1, r2 \in posts_rels :
        (/\ r1.path = "likedBy" /\ r2.path = "likedBy"
         /\ r1.parent_id = r2.parent_id
         /\ r1.user_id = r2.user_id) => r1.id = r2.id

\* C3: from every starting state, two likePost(p, u) calls one after the
\* other leave the Like edges as they were, and when the first returned
\* liked=true the second returns liked=false with the count before the first.
TwoLikesRestore ==
    LastTwoInSequence =>
        /\ LikePairs(posts_rels) = LikePairs(Previous.before)
        /\ (Previous.status = 200 /\ Previous.body.liked) =>
              /\ Last.status = 200
              /\ ~Last.body.liked
              /\ Last.body.likeCount =
                    Cardinality(LikeRowsOf(Previous.before, Last.postId))

\* C4: after two overlapping likePost calls of one user on one post have
\* both completed, exactly one Like edge of that pair exists.
TwoConcurrentLikesLeaveOne ==
    LastTwoOverlapped =>
        Cardinality(LikeRows(posts_rels, Last.postId, Last.userId)) = 1

\* C5: the likeCount a likePost call returns is the number of 'likedBy'
\* rows of the post that the table holds when the call returns.
LikeCountIsLiveCount ==
    [][Len(history') > Len(history) =>
        LET e == history'[Len(history')]
        IN  e.status = 200 =>
              e.body.likeCount = Cardinality(LikeRowsOf(posts_rels', e.postId))
      ]_vars

\* a call returned a count of two while the post also has a tag relation
LikeCountTwoReported ==
    \E i \in 1..Len(history) :
        /\ history[i].status = 200
        /\ history[i].body.likeCount = 2
        /\ \E r \in posts_rels :
              r.path = "tags" /\ r.parent_id = history[i].postId

\* the most recent likePost(p, u) call created an edge
LastLikeCreated(p, u) ==
    \E i \in 1..Len(history) :
        /\ IsCall(history[i], p, u)
        /\ history[i].status = 200
        /\ history[i].body.liked
        /\ \A j \in (i + 1)..Len(history) : ~IsCall(history[j], p, u)

\* C6: after a sequential history of likePost calls, isPostLikedByUser(p, u)
\* is true iff the most recent likePost(p, u) call returned liked=true.
IsLikedIffLastLikeCreated ==
    InFlight = {} =>
        \A p \in AnyPost, u \in UserIds :
            isPostLikedByUser(p, u) <=> LastLikeCreated(p, u)

\* user 2 liked and unliked post 7, user 1 liked it
LikedByOneNotOther ==
    /\ InFlight = {}
    /\ isPostLikedByUser(7, 1)
    /\ ~isPostLikedByUser(7, 2)
    /\ \E i \in 1..Len(history) :
          /\ IsCall(history[i], 7, 2)
          /\ history[i].status = 200
          /\ ~history[i].body.liked

\* the first three calls are likePost(7,1), likePost(7,1), likePost(7,2)
Scenario ==
    /\ Len(history) >= 3
    /\ IsCall(history[1], 7, 1)
    /\ IsCall(history[2], 7, 1)
    /\ IsCall(history[3], 7, 2)

Returned(e, liked, likeCount) ==
    /\ e.status = 200
    /\ e.body.liked = liked
    /\ e.body.likeCount = likeCount

\* C7: from post 7 without Like edges, likePost(7,1), likePost(7,1),
\* likePost(7,2) return {true, 1}, {false, 0}, {true, 1}; then
\* isPostLikedByUser(7,1) is false and isPostLikedByUser(7,2) is true.
ScenarioResults ==
    Scenario =>
        /\ Returned(history[1], TRUE, 1)
        /\ Returned(history[2], FALSE, 0)
        /\ Returned(history[3], TRUE, 1)
        /\ (Len(history) = 3 /\ InFlight = {}) =>
              ~isPostLikedByUser(7, 1) /\ isPostLikedByUser(7, 2)

ScenarioDone == Scenario /\ Len(history) = 3 /\ InFlight = {}

\* C8: a likePost call for a post id that does not exist takes one step,
\* which answers 404 'Post not found' and leaves the relation table as it is.
MissingPostIsNotFound ==
    [][\A c \in Clients :
        (/\ pc[c] # "idle"
         /\ req[c].postId \in MissingPostIds
         /\ pc'[c] # pc[c]) =>
            /\ pc[c] = "findUnique"
            /\ pc'[c] = "idle"
            /\ posts_rels' = posts_rels
            /\ nextId' = nextId
            /\ Len(history') = Len(history) + 1
            /\ history'[Len(history')].status = 404
            /\ history'[Len(history')].body = [error |-> "Post not found"]
      ]_vars

\* a like of a missing post was answered 404 while Like edges exist
MissingPostAnswered ==
    /\ \E i \in 1..Len(history) :
          history[i].postId \in MissingPostIds /\ history[i].status = 404
    /\ \E r \in posts_rels : r.path = "likedBy"

\* C9: in a sequential execution likePost(p, u) on an existing post deletes
\* the edge of (p, u) and returns liked=false exactly when the edge was there,
\* creates one and returns liked=true exactly when it was not, so the flag
\* is the presence of the edge after the call.
LikedFlagIsToggle ==
    (Len(history) >= 1 /\ InFlight = {} /\ Last.status = 200) =>
        LET had == LikeRows(Last.before, Last.postId, Last.userId)
            has == LikeRows(posts_rels, Last.postId, Last.userId)
        IN  /\ had # {} => ~Last.body.liked /\ posts_rels = Last.before \ had
            /\ had = {} =>
                  /\ Last.body.liked
                  /\ Cardinality(has) = 1
                  /\ posts_rels = Last.before \cup has
            /\ Last.body.liked <=> has # {}

\* the last call found the edge and removed it
ToggledOff ==
    /\ Len(history) >= 2
    /\ InFlight = {}
    /\ Last.status = 200
    /\ ~Last.body.liked
    /\ LikeRows(Last.before, Last.postId, Last.userId) # {}

\* the last two responses come from calls that found the edge: a call that
\* did not find it creates one and returns liked=true
BothFoundTheEdge ==
    \A e \in {Previous, Last} :
        e.status = 500 \/ (e.status = 200 /\ ~e.body.liked)

\* C10: when two overlapping likePost calls of one (post, user) both find
\* the edge and both delete it, both complete without an error and the edge
\* is absent afterwards.
BothDeletesSucceed ==
    (LastTwoOverlapped /\ BothFoundTheEdge) =>
        /\ Previous.status = 200
        /\ Last.status = 200
        /\ LikeRows(posts_rels, Last.postId, Last.userId) = {}

\* C11: an insert by likePost that would give the pair a second Like edge is
\* not accepted: the step that runs it adds no row for the pair (it is
\* detected and the call goes on as a delete).
DuplicateInsertNotAccepted ==
    [][\A c \in Clients :
        (/\ pc[c] = "create"
         /\ pc'[c] # "create"
         /\ LikeRows(posts_rels, req[c].postId, req[c].userId) # {}) =>
            LikeRows(posts_rels', req[c].postId, req[c].userId)
                \subseteq LikeRows(posts_rels, req[c].postId, req[c].userId)
      ]_vars

\* C13: the /post/like route answers 200 with likePost's result when likePost
\* returns, 404 when it throws 'Post not found', 500 when it fails otherwise,
\* and never 200 for a call that threw.
LikeRouteStatuses ==
    [][\A c \in Clients :
        (pc[c] # "idle" /\ pc'[c] = "idle") =>
            LET e == history'[Len(history')]
            IN  /\ e.status \in {200, 404, 500}
                /\ e.status = 200 <=> pc[c] = "count"
                /\ e.status = 404 <=> pc[c] = "findUnique"
                /\ e.status = 500 <=> pc[c] = "delete"
                /\ e.status = 200 =>
                      /\ e.body.liked = (existingLike[c] = {})
                      /\ e.body.likeCount =
                            Cardinality(LikeRowsOf(posts_rels, req[c].postId))
                /\ e.status = 404 => e.body = [error |-> "Post not found"]
                /\ e.status = 500 => e.body = [error |-> "Internal server error"]
      ]_vars

\* the log holds a 200, a 404 and a 500
AllThreeStatusesAnswered ==
    \A st \in {200, 404, 500} :
        \E i \in 1..Len(history) : history[i].status = st

\* the rows of a table that are no Like edges (the tag relations)
OtherRows(table) == {r \in table : r.path # "likedBy"}

\* C18: likePost looks up, creates, deletes and counts only rows of path
\* 'likedBy': the 'tags' rows are the same after every step, the row a
\* lookup returns is a 'likedBy' row, and a returned likeCount leaves the
\* post's 'tags' rows out.
LikePostKeepsToLikedBy ==
    [][/\ OtherRows(posts_rels') = OtherRows(posts_rels)
       /\ \A c \in Clients : \A r \in existingLike'[c] : r.path = "likedBy"
       /\ Len(history') > Len(history) =>
            LET e == history'[Len(history')]
                ofPost == {r \in posts_rels' : r.parent_id = e.postId}
            IN  e.status = 200 =>
                  e.body.likeCount + Cardinality(OtherRows(ofPost))
                      = Cardinality(ofPost)
      ]_vars

\* user 1 liked and unliked post 7, whose tag relation is still there
UnlikedBesideTag ==
    /\ \E i \in 1..Len(history) :
          /\ IsCall(history[i], 7, 1)
          /\ history[i].status = 200
          /\ ~history[i].body.liked
    /\ \E r \in posts_rels : r.path = "tags" /\ r.parent_id = 7

\* C20: in every reachable state the likeCount that getPostById and
\* getAllPosts report for a post is what likePost's count query returns for
\* it, the number of Like edges present.
ReportedLikeCountIsCount ==
    /\ \A p \in posts : \A g \in getPostById(p) :
          /\ g.likeCount = count(posts_rels, CountWhere(p))
          /\ g.likeCount = Cardinality(LikeRowsOf(posts_rels, p))
    /\ \A g \in getAllPosts :
          /\ g.likeCount = count(posts_rels, CountWhere(g.id))
          /\ g.likeCount = Cardinality(LikeRowsOf(posts_rels, g.id))

\* post 7 is reported with two likes while it also has a tag relation
TwoLikesReported ==
    /\ \E g \in getPostById(7) : g.likeCount = 2
    /\ \E g \in getAllPosts : g.id = 7 /\ g.likeCount = 2
    /\ \E r \in posts_rels : r.path = "tags" /\ r.parent_id = 7

\* C19: isPostLikedByUser and getLikesByPostId only read: a step that answers
\* one of the two query routes, at whatever await the /like request in
\* flight is, leaves the posts, the relation table, the id sequence and the
\* state of every /like request as they were.
QueriesAreReadOnly ==
    [][answer' # answer => UNCHANGED <<likeVars, commentVars>>]_vars

\* both queries have an answer to give while a /like request is between its
\* lookup and its write
QueriedDuringLike ==
    /\ \E c \in Clients : pc[c] \in {"delete", "create"}
    /\ \/ answer.route = "likes" /\ answer.likes # {}
       \/ answer.route = "is-liked" /\ answer.liked

\* the Like edges of (commentId, userId) in a reaction table
Edges(table, commentId, userId, path) ==
    findMany(table, ReactionWhere(commentId, userId, path))

\* the last reply is a 200 of the route to a request with a userId
Served(route) ==
    /\ reply.route = route
    /\ reply.userId # Null
    /\ reply.status = 200

\* C14: an unlike of a comment that exists by a user who has no Like edge on
\* it is answered 200 without error, leaves the reaction table as it was and
\* returns the like count the comment had.
UnlikeWithoutEdgeIsNoOp ==
    (/\ reply.route = "unlike-comment"
     /\ reply.userId # Null
     /\ findUnique(comments, reply.commentId)
     /\ Edges(reply.before, reply.commentId, reply.userId, "likedBy") = {})
    => /\ reply.status = 200
       /\ reply.error = ""
       /\ comments_rels = reply.before
       /\ reply.count = count(reply.before,
                            ReactionCountWhere(reply.commentId, "likedBy"))

\* user 1 unliked comment 3 holding a Dislike edge and no Like edge on it,
\* while user 2 likes it
UnlikedWithoutEdge ==
    /\ Served("unlike-comment")
    /\ reply.commentId = 3 /\ reply.userId = 1
    /\ Edges(reply.before, 3, 1, "likedBy") = {}
    /\ Edges(reply.before, 3, 1, "dislikedBy") # {}
    /\ reply.count = 1

\* the step is a 200 of the route to (commentId, userId)
Serves(route, commentId, userId) ==
    /\ reply'.route = route
    /\ reply'.commentId = commentId
    /\ reply'.userId = userId
    /\ reply'.status = 200

\* C15: each (post, user) Like key is Absent or Present, never more than
\* one edge; a likePost call on the key flips it with its write, and no other
\* step changes it.
PostKeyMachine ==
    [][\A p \in AnyPost, u \in UserIds :
          LET was == LikeRows(posts_rels, p, u) # {}
              is  == LikeRows(posts_rels', p, u) # {}
          IN  /\ Cardinality(LikeRows(posts_rels', p, u)) <= 1
              /\ IF \E c \in Clients :
                        /\ req[c] = [postId |-> p, userId |-> u]
                        /\ pc[c] \in {"delete", "create"}
                        /\ pc'[c] = "count"
                    THEN is = ~was
                    ELSE is = was
      ]_vars

\* C15, for the comments: each (comment, user, kind) key is Absent or
\* Present when the routes are served one after the other: like-comment
\* flips the Like key and dislike-comment the Dislike key of its (comment,
\* user), unlike-comment leaves the Like key Absent (so isLiked is false
\* after it and a second unlike changes nothing), and no other step changes
\* the key.
ReactionKeyMachine ==
    [][\A c \in CommentIds \cup MissingCommentIds, u \in UserIds \cup {Null},
         path \in {"likedBy", "dislikedBy"} :
          LET was == Edges(comments_rels, c, u, path) # {}
              is  == Edges(comments_rels', c, u, path) # {}
              toggle == IF path = "likedBy" THEN "like-comment"
                                             ELSE "dislike-comment"
          IN  /\ Cardinality(Edges(comments_rels', c, u, path)) <= 1
              /\ IF Serves(toggle, c, u)
                    THEN is = ~was
                    ELSE IF path = "likedBy" /\ Serves("unlike-comment", c, u)
                    THEN /\ ~is
                         /\ ~isCommentLikedByUser(c, u)'
                         /\ ~was => comments_rels' = comments_rels
                    ELSE is = was
      ]_vars

\* user 1's Like edge on comment 3 was removed by an unlike
UnlikeRemovedEdge ==
    /\ Served("unlike-comment")
    /\ reply.commentId = 3 /\ reply.userId = 1
    /\ Edges(reply.before, 3, 1, "likedBy") # {}
    /\ Edges(comments_rels, 3, 1, "likedBy") = {}

\* C16: an unlike of a comment that does not exist is answered 404 with
\* 'Comment not found' and removes no edge.
UnlikeOfMissingCommentIs404 ==
    (/\ reply.route = "unlike-comment"
     /\ reply.userId # Null
     /\ ~findUnique(comments, reply.commentId))
    => /\ reply.status = 404
       /\ reply.error = "Comment not found"
       /\ comments_rels = reply.before

\* an unlike of comment 4, which does not exist, was answered while a Like
\* edge on comment 4 was in the table
UnlikedMissingComment ==
    /\ reply.route = "unlike-comment"
    /\ reply.commentId = 4
    /\ reply.status = 404
    /\ Edges(reply.before, 4, 1, "likedBy") # {}

\* the edges of a kind in a reaction table
EdgesOfKind(table, path) == {r \in table : r.path = path}

\* C17: Like and Dislike are independent: a like-comment step leaves every
\* Dislike edge, and so every dislike count, as it was, and a
\* dislike-comment step every Like edge and like count.
LikeAndDislikeIndependent ==
    [][/\ reply'.route = "like-comment" =>
            EdgesOfKind(comments_rels', "dislikedBy")
                = EdgesOfKind(comments_rels, "dislikedBy")
       /\ reply'.route = "dislike-comment" =>
            EdgesOfKind(comments_rels', "likedBy")
                = EdgesOfKind(comments_rels, "likedBy")
       /\ \A c \in CommentIds \cup MissingCommentIds :
            /\ reply'.route = "like-comment" =>
                  count(comments_rels', ReactionCountWhere(c, "dislikedBy"))
                    = count(comments_rels, ReactionCountWhere(c, "dislikedBy"))
            /\ reply'.route = "dislike-comment" =>
                  count(comments_rels', ReactionCountWhere(c, "likedBy"))
                    = count(comments_rels, ReactionCountWhere(c, "likedBy"))
      ]_vars

\* user 1 holds a Like edge and a Dislike edge on comment 3 at once
BothLikedAndDisliked ==
    /\ Edges(comments_rels, 3, 1, "likedBy") # {}
    /\ Edges(comments_rels, 3, 1, "dislikedBy") # {}
    /\ reply.route \in {"like-comment", "dislike-comment"}
    /\ reply.liked

\* C12: every request to one of the six reaction routes that lacks userId
\* or the target id is answered 400 and the service is not invoked.
LackingRequestsAnswered400 ==
    /\ \A i \in 1..Len(history) :
          (history[i].postId = Null \/ history[i].userId = Null)
              => history[i].status = 400
    /\ (answer.route = "is-liked" /\ answer.userId = Null)
          => answer.status = 400
    /\ (reply.route # "none" /\ reply.userId = Null)
          => /\ reply.status = 400
             /\ ~reply.invoked

\* C21: every likePost call that returned liked=true returned a likeCount of
\* at least 1, however its steps interleaved with those of other calls.
LikedTrueCountsAtLeastOne ==
    \A i \in 1..Len(history) :
        (history[i].status = 200 /\ history[i].body.liked)
            => history[i].body.likeCount >= 1

\* the number of Like edges of (p, u) in a table
PairCount(table, p, u) == Cardinality(LikeRows(table, p, u))

\* the number of edges of a key after one likePost call on it
ToggledCount(n) == IF n = 0 THEN 1 ELSE n - 1

\* The last two responses are 200s to calls of different users on one post;
\* the two calls overlapped, every earlier call was answered before either
\* arrived, and no request is being served.
LastTwoOfDifferentUsers ==
    /\ Len(history) >= 2
    /\ InFlight = {}
    /\ Previous.postId = Last.postId
    /\ Previous.userId # Last.userId
    /\ Previous.status = 200 /\ Last.status = 200
    /\ Previous.began = Len(history) - 2
    /\ Last.began = Len(history) - 2

\* the table holds what the calls first and second, run one after the other
\* from the table the call first found at its arrival, leave
AsInSequence(first, second) ==
    /\ OtherRows(posts_rels) = OtherRows(first.before)
    /\ \A p \in AnyPost, u \in UserIds :
          PairCount(posts_rels, p, u) =
            IF p = first.postId /\ u \in {first.userId, second.userId}
              THEN ToggledCount(PairCount(first.before, p, u))
              ELSE PairCount(first.before, p, u)

\* C22: after two overlapping likePost calls of different users on one post
\* have both returned, the Like edges are those the two calls leave when run
\* one after the other: each user's edge toggled once, every other row as
\* it was.
DifferentUsersDoNotInterfere ==
    LastTwoOfDifferentUsers =>
        /\ AsInSequence(Previous, Last) \/ AsInSequence(Last, Previous)
        /\ \A e \in {Previous, Last} :
              PairCount(posts_rels, e.postId, e.userId) =
                  ToggledCount(PairCount(e.before, e.postId, e.userId))

\* users 1 and 2 toggled post 7 in overlapping calls, one removing an edge
\* and one creating an edge, the second arriving after the first had written
OverlappedOffAndOn ==
    /\ LastTwoOfDifferentUsers
    /\ Previous.body.liked # Last.body.liked
    /\ Previous.before # Last.before

\* the rows of a table that are not of the key (p, u)
RowsBeside(table, p, u) ==
    {r \in table : ~(r.parent_id = p /\ r.user_id = u)}

\* C23: a step of a likePost(p, u) call, whether the call goes on to succeed
\* or to fail, leaves every relation row whose (parent_id, user_id) is not
\* (p, u) as it was; the arrival of a request changes no row.
LikePostKeepsOtherKeys ==
    [][\A c \in Clients :
          pc'[c] # pc[c] =>
            IF pc[c] = "idle"
              THEN posts_rels' = posts_rels
              ELSE RowsBeside(posts_rels', req[c].postId, req[c].userId)
                     = RowsBeside(posts_rels, req[c].postId, req[c].userId)
      ]_vars

\* user 1 unliked post 7 while user 2's edge on post 7 and user 1's edge on
\* post 8 are in the table
UnlikedBesideOtherEdges ==
    /\ Len(history) >= 1
    /\ IsCall(Last, 7, 1)
    /\ Last.status = 200
    /\ ~Last.body.liked
    /\ LikeRows(posts_rels, 7, 2) # {}
    /\ LikeRows(posts_rels, 8, 1) # {}
    /\ LikeRows(posts_rels, 7, 1) = {}

\* C24: in every reachable state getLikesByPostId(p) holds one entry per
\* 'likedBy' row of post p, with the row's id and user_id; it has as many
\* entries as the like count of p, and isPostLikedByUser(p, u) is true
\* exactly when an entry has userId u.
LikesListIsTheLikeEdges ==
    \A p \in AnyPost :
        /\ getLikesByPostId(p) =
              {[id |-> r.id, userId |-> r.user_id] :
                  r \in LikeRowsOf(posts_rels, p)}
        /\ Cardinality(getLikesByPostId(p)) = count(posts_rels, CountWhere(p))
        /\ Cardinality(getLikesByPostId(p))
              = Cardinality(LikeRowsOf(posts_rels, p))
        /\ \A u \in UserIds :
              isPostLikedByUser(p, u)
                  <=> \E e \in getLikesByPostId(p) : e.userId = u

\* the list of post 7, which has a tag relation, holds two entries of
\* user 1 and none of user 2
TwoEntriesOfOneUser ==
    /\ Cardinality(getLikesByPostId(7)) = 2
    /\ \A e \in getLikesByPostId(7) : e.userId = 1
    /\ ~isPostLikedByUser(7, 2)
    /\ \E r \in posts_rels : r.path = "tags" /\ r.parent_id = 7

\* the step is of no /like request: in EditSpec, an edit of a post
EditStep == pc' = pc /\ history' = history

\* C25: an updatePost, with or without a tags array, leaves every 'likedBy'
\* row as it was, and with it the like count of every post and the liked
\* status of every user; only 'tags' rows of the edited post change.
EditKeepsLikes ==
    [][EditStep =>
          /\ {r \in posts_rels' : r.path = "likedBy"}
                = {r \in posts_rels : r.path = "likedBy"}
          /\ \A p \in AnyPost :
                /\ count(posts_rels', CountWhere(p))
                      = count(posts_rels, CountWhere(p))
                /\ getPostById(p)' = getPostById(p)
                /\ \A u \in UserIds :
                      isPostLikedByUser(p, u)' = isPostLikedByUser(p, u)
          /\ \A r \in (posts_rels' \ posts_rels) \cup (posts_rels \ posts_rels') :
                r.path = "tags" /\ r.parent_id = answer'.postId
      ]_vars

\* post 7, liked by user 1, was edited: its first tag relation was replaced
\* by two new ones and the Like edge is still there
EditedLikedPost ==
    /\ answer.route = "edit-post"
    /\ answer.status = 200
    /\ LikeRows(posts_rels, 7, 1) # {}
    /\ Cardinality({r \in posts_rels : r.path = "tags" /\ r.parent_id = 7}) = 2
    /\ \A r \in posts_rels : r.path = "tags" =>
          \E l \in LikeRows(posts_rels, 7, 1) : l.id < r.id

\* C26: no deletePost separates a likePost call's existence check from its
\* create: when the call reaches its create the post still exists, and the
\* row the create adds is an edge on a post that exists.
LikeNotSeparatedFromDelete ==
    [][\A c \in Clients :
          (pc[c] = "create" /\ pc'[c] # "create") =>
              /\ findUnique(posts, req[c].postId)
              /\ \A r \in posts_rels' \ posts_rels :
                    findUnique(posts', r.parent_id)
      ]_vars

====
